---- MODULE Spec2Model ----
(***************************************************************************)
(* Model of src/src/index.ts: the process-wide resource cache, the loader  *)
(* registry, the immediate load, the pending queue and the batch loader.   *)
(*                                                                         *)
(* One action is one run-to-completion piece of JavaScript: an exported    *)
(* function called by user code (with every callback it invokes on the     *)
(* way), one callback of a loader (success or error) with everything that  *)
(* callback does, or the reaction of Promise.all that fulfils the promise  *)
(* of a loadPending call.  A loader is the external collaborator of        *)
(* three.js: its load returns at once and one of its two callbacks fires   *)
(* in a later task.                                                        *)
(***************************************************************************)
EXTENDS Integers, Sequences, FiniteSets, TLC

(***************************************************************************)
(* Bounds of the model.                                                    *)
(***************************************************************************)
MaxCalls == 4   \* calls user code makes of the exported functions

Paths       == {"a", "b"}
LoaderTypes == {"LX", "LY"}

(***************************************************************************)
(* Values.  A value is a triple <<kind, path, n>>.                         *)
(***************************************************************************)
NULL      == <<"null", "", 0>>          \* JavaScript null: the placeholder
UNDEFINED == <<"undefined", "", 0>>     \* JavaScript undefined
PENDING   == <<"pending", "", 0>>       \* a promise that is not settled
ArrayOf(n) == <<"array", "", n>>       \* an array of n undefined (Promise.all)
Manual    == <<"manual", "", 0>>        \* a value user code stores with add
Result(p, n) == <<"result", p, n>>      \* what the n-th load of p decodes
Error(p, n)  == <<"error", p, n>>       \* what the n-th load of p reports

\* Callbacks are named: "P1" (onProgress) and "E1" (onError) only observe;
\* of the onLoad callbacks, "cb1" and "cb2" only observe and "cbPre" also
\* calls preload(LX, "a"), a re-entrant preload.
NoCb == "none"                          \* a callback that is null / undefined

Entry(p, cb) == [path |-> p, onLoad |-> cb]

VARIABLES
  onProgressDefault,  \* _onProgress
  onErrorDefault,     \* _onError
  loaders,            \* _loaders: loader type -> instance, on its domain
  resources,          \* _resources: path -> value, on its domain
  pending,            \* _pending: the queue of requests
  batches,            \* per loadPending call: its closure and its promise
  loadCalls,          \* per load call: its promise
  ops,                \* loader invocations in flight
  nextInst,           \* the next instance a constructor makes
  invocations,        \* per path, how often a loader's load was called
  calls,              \* how many calls user code has made
  ev                  \* what the last step did and what user code saw of it

vars == <<onProgressDefault, onErrorDefault, loaders, resources, pending,
          batches, loadCalls, ops, nextInst, invocations, calls, ev>>

(***************************************************************************)
(* _resources (a JavaScript Map: has / get / set / delete).                *)
(***************************************************************************)
\* (mutant of MapHas: the test is on the value, if (_resources.get(path)))
MapHasTruthy(m, k) == k \in DOMAIN m /\ m[k] # <<"null", "", 0>>

\* (mutant of MapHas: the cache is not consulted)
MapHasNever(m, k) == FALSE

MapHas(m, k) == k \in DOMAIN m

MapGet(m, k) == IF k \in DOMAIN m THEN m[k] ELSE UNDEFINED

MapSet(m, k, v) == [x \in DOMAIN m \cup {k} |-> IF x = k THEN v ELSE m[x]]

\* (mutant of MapDelete: the key goes back to the placeholder)
MapDeleteToPlaceholder(m, k) ==
  [x \in DOMAIN m \cup {k} |-> IF x = k THEN <<"null", "", 0>> ELSE m[x]]

\* (mutant of MapDelete: only a placeholder is deleted)
MapDeletePlaceholder(m, k) ==
  IF k \in DOMAIN m /\ m[k] = <<"null", "", 0>>
  THEN [x \in DOMAIN m \ {k} |-> m[x]] ELSE m

MapDelete(m, k) == [x \in DOMAIN m \ {k} |-> m[x]]

EmptyMap == [x \in {} |-> NULL]

(***************************************************************************)
(* The record of a step.                                                   *)
(***************************************************************************)
NoEvent ==
  [op |-> "init", type |-> "", path |-> "", paths |-> <<>>, owner |-> 0,
   inst |-> 0,
   constructed |-> FALSE, ret |-> UNDEFINED, invoked |-> <<>>,
   drained |-> <<>>, before |-> UNDEFINED,
   onLoad |-> <<>>, onError |-> <<>>, onProgress |-> <<>>, arg |-> NoCb,
   order |-> <<>>]

Init ==
  /\ onProgressDefault = NoCb
  /\ onErrorDefault = NoCb
  /\ loaders = [x \in {} |-> 0]
  /\ resources = EmptyMap
  /\ pending = <<>>
  /\ batches = <<>>
  /\ loadCalls = <<>>
  /\ ops = {}
  /\ nextInst = 1
  /\ invocations = [p \in Paths |-> 0]
  /\ calls = 0
  /\ ev = NoEvent

\* A call made by user code: the model stops making them after MaxCalls.
UserCall == calls < MaxCalls /\ calls' = calls + 1

(***************************************************************************)
(* add / get / remove                                                      *)
(***************************************************************************)
RECURSIVE RemoveAll(_, _)
RemoveAll(m, paths) ==
  IF paths = <<>> THEN m
  ELSE RemoveAll(MapDelete(m, Head(paths)), Tail(paths))

Add(path, value) ==
  /\ UserCall
  /\ resources' = MapSet(resources, path, value)
  /\ ev' = [NoEvent EXCEPT !.op = "add", !.path = path, !.ret = value]
  /\ UNCHANGED <<onProgressDefault, onErrorDefault, loaders, pending, batches,
                 loadCalls, ops, nextInst, invocations>>

\* get reads and changes nothing: it is the value user code would see.
Get(path) == MapGet(resources, path)

Remove(paths) ==
  /\ UserCall
  /\ resources' = RemoveAll(resources, paths)
  /\ ev' = [NoEvent EXCEPT !.op = "remove", !.paths = paths]
  /\ UNCHANGED <<onProgressDefault, onErrorDefault, loaders, pending, batches,
                 loadCalls, ops, nextInst, invocations>>

(***************************************************************************)
(* getLoader / removeLoader.  GetLoaderIn is getLoader as a function of    *)
(* the registry: it returns the registry after the call, the instance and  *)
(* whether the constructor ran.  The constructor makes instance n.         *)
(***************************************************************************)
\* (mutant of GetLoaderIn: no memo, every call constructs)
GetLoaderInAlwaysNew(ls, n, loaderType) ==
  [loaders |-> [t \in DOMAIN ls \cup {loaderType} |->
                  IF t = loaderType THEN n ELSE ls[t]],
   nextInst |-> n + 1, inst |-> n, constructed |-> TRUE]

GetLoaderIn(ls, n, loaderType) ==
  IF loaderType \notin DOMAIN ls
  THEN [loaders |-> [t \in DOMAIN ls \cup {loaderType} |->
                       IF t = loaderType THEN n ELSE ls[t]],
        nextInst |-> n + 1,
        inst |-> n, constructed |-> TRUE]
  ELSE [loaders |-> ls, nextInst |-> n,
        inst |-> ls[loaderType], constructed |-> FALSE]

GetLoader(loaderType) ==
  LET g == GetLoaderIn(loaders, nextInst, loaderType) IN
  /\ UserCall
  /\ loaders' = g.loaders
  /\ nextInst' = g.nextInst
  /\ ev' = [NoEvent EXCEPT !.op = "getLoader", !.type = loaderType,
                           !.inst = g.inst, !.constructed = g.constructed]
  /\ UNCHANGED <<onProgressDefault, onErrorDefault, resources, pending, batches,
                 loadCalls, ops, invocations>>

RemoveLoader(loaderType) ==
  /\ UserCall
  /\ loaders' = [t \in DOMAIN loaders \ {loaderType} |-> loaders[t]]
  /\ ev' = [NoEvent EXCEPT !.op = "removeLoader", !.type = loaderType]
  /\ UNCHANGED <<onProgressDefault, onErrorDefault, resources, pending, batches,
                 loadCalls, ops, nextInst, invocations>>

(***************************************************************************)
(* setOnProgressDefault / setOnErrorDefault                                *)
(***************************************************************************)
SetOnProgressDefault(onProgress) ==
  /\ UserCall
  /\ onProgressDefault' = onProgress
  /\ ev' = [NoEvent EXCEPT !.op = "setOnProgressDefault", !.arg = onProgress]
  /\ UNCHANGED <<onErrorDefault, loaders, resources, pending, batches,
                 loadCalls, ops, nextInst, invocations>>

SetOnErrorDefault(onError) ==
  /\ UserCall
  /\ onErrorDefault' = onError
  /\ ev' = [NoEvent EXCEPT !.op = "setOnErrorDefault", !.arg = onError]
  /\ UNCHANGED <<onProgressDefault, loaders, resources, pending, batches,
                 loadCalls, ops, nextInst, invocations>>

(***************************************************************************)
(* load.  An operation in flight is the pair of callbacks handed to the    *)
(* loader with the variables they close over: kind and owner say whose     *)
(* they are, n is the number of this load of the path (the loader answers  *)
(* Result(path, n) or Error(path, n)).  The onProgress argument of load is *)
(* handed to the loader untouched and changes nothing here.                *)
(***************************************************************************)
Op(kind, owner, path, n, onLoad, onError) ==
  [kind |-> kind, owner |-> owner, path |-> path, n |-> n,
   onLoad |-> onLoad, onError |-> onError]

Promise(state, value) == [state |-> state, value |-> value]

Load(loaderType, path, onError) ==
  LET id == Len(loadCalls) + 1 IN
  /\ UserCall
  /\ IF MapHas(resources, path)
     THEN /\ loadCalls' = Append(loadCalls,
                                 Promise("fulfilled", MapGet(resources, path)))
          /\ ev' = [NoEvent EXCEPT !.op = "load", !.type = loaderType,
                                   !.path = path, !.owner = id,
                                   !.ret = MapGet(resources, path)]
          /\ UNCHANGED <<resources, loaders, nextInst, ops, invocations>>
     ELSE LET g == GetLoaderIn(loaders, nextInst, loaderType)
              n == invocations[path] + 1
          IN /\ resources' = MapSet(resources, path, NULL)
             /\ loaders' = g.loaders
             /\ nextInst' = g.nextInst
             /\ ops' = ops \cup {Op("load", id, path, n, NoCb, onError)}
             /\ invocations' = [invocations EXCEPT ![path] = n]
             /\ loadCalls' = Append(loadCalls, Promise("pending", PENDING))
             /\ ev' = [NoEvent EXCEPT !.op = "load", !.type = loaderType,
                                      !.path = path, !.owner = id,
                                      !.inst = g.inst,
                                      !.constructed = g.constructed,
                                      !.ret = PENDING, !.invoked = <<path>>]
  /\ UNCHANGED <<onProgressDefault, onErrorDefault, pending, batches>>

\* (mutant of CallOnError: the error callback is not handed on)
CallOnErrorNever(onError, e) == <<>>

\* if (onError) onError(e): the calls of onError it makes.
CallOnError(onError, e) == IF onError # NoCb THEN <<<<onError, e>>>> ELSE <<>>

\* The success callback of load.
LoadOnSuccess(o) ==
  LET result == Result(o.path, o.n) IN
  /\ UNCHANGED calls
  /\ o \in ops /\ o.kind = "load"
  /\ resources' = MapSet(resources, o.path, result)
  /\ loadCalls' = [loadCalls EXCEPT ![o.owner] = Promise("fulfilled", result)]
  /\ ops' = ops \ {o}
  /\ ev' = [NoEvent EXCEPT !.op = "load.onSuccess", !.path = o.path,
                           !.owner = o.owner, !.ret = result,
                           !.before = MapGet(resources, o.path)]
  /\ UNCHANGED <<onProgressDefault, onErrorDefault, loaders, pending, batches,
                 nextInst, invocations>>

\* The error callback of load.
LoadOnError(o) ==
  LET e == Error(o.path, o.n) IN
  /\ UNCHANGED calls
  /\ o \in ops /\ o.kind = "load"
  /\ resources' = MapDelete(resources, o.path)
  /\ loadCalls' = [loadCalls EXCEPT ![o.owner] = Promise("fulfilled", UNDEFINED)]
  /\ ops' = ops \ {o}
  /\ ev' = [NoEvent EXCEPT !.op = "load.onError", !.path = o.path,
                           !.owner = o.owner, !.ret = UNDEFINED,
                           !.before = MapGet(resources, o.path),
                           !.onError = CallOnError(o.onError, e)]
  /\ UNCHANGED <<onProgressDefault, onErrorDefault, loaders, pending, batches,
                 nextInst, invocations>>

(***************************************************************************)
(* preload.  PushRequest is the push of preload, as a function of the      *)
(* queue: callbacks that call preload use it too.                          *)
(***************************************************************************)
Resource(loader, paths) == [loader |-> loader, paths |-> paths]

PushRequest(queue, loader, resources_) ==
  Append(queue, Resource(loader, resources_))

\* (mutant of Preload: the loader is obtained when the request is queued)
PreloadGetsLoader(loader, resources_) ==
  LET g == GetLoaderIn(loaders, nextInst, loader) IN
  /\ UserCall
  /\ pending' = PushRequest(pending, loader, resources_)
  /\ loaders' = g.loaders
  /\ nextInst' = g.nextInst
  /\ ev' = [NoEvent EXCEPT !.op = "preload", !.type = loader,
                           !.paths = resources_]
  /\ UNCHANGED <<onProgressDefault, onErrorDefault, resources, batches,
                 loadCalls, ops, invocations>>

Preload(loader, resources_) ==
  /\ UserCall
  /\ pending' = PushRequest(pending, loader, resources_)
  /\ ev' = [NoEvent EXCEPT !.op = "preload", !.type = loader,
                           !.paths = resources_]
  /\ UNCHANGED <<onProgressDefault, onErrorDefault, loaders, resources, batches,
                 loadCalls, ops, nextInst, invocations>>

\* What an onLoad callback does to the queue: cbPre calls preload(LX, "a").
ReentrantRequest == Resource("LX", <<Entry("a", NoCb)>>)

OnLoadEffect(queue, cb) ==
  IF cb = "cbPre"
  THEN PushRequest(queue, ReentrantRequest.loader, ReentrantRequest.paths)
  ELSE queue

(***************************************************************************)
(* loadPending.  The drain loop and _load run inside the call, so they are *)
(* functions of a record d of everything the call reads and writes:        *)
(*   pending, resources, loaders, nextInst, invocations : the globals      *)
(*   total    : the counter of the closure                                 *)
(*   created  : the operations handed to loaders (promises.push)           *)
(*   invoked, onLoad, drained : what the call did, for the step's record   *)
(* A progress ratio k / total is kept as the pair <<k, total>>.            *)
(***************************************************************************)
\* (mutant of Ratio: progress++ / total, the counter read before it is raised)
RatioPostIncrement(k, total) == <<k - 1, total>>

Ratio(k, total) == <<k, total>>

\* (mutant of CreatePromise: the placeholder is not written)
CreatePromiseNoPlaceholder(d, owner, path, onLoad) ==
  LET n == d.invocations[path] + 1 IN
  [d EXCEPT !.created = @ \cup {Op("batch", owner, path, n, onLoad, NoCb)},
            !.invocations = [@ EXCEPT ![path] = n],
            !.invoked = Append(@, path)]

\* _createPromise up to the call of loader.load (the callbacks run later).
CreatePromise(d, owner, path, onLoad) ==
  LET n == d.invocations[path] + 1 IN
  [d EXCEPT !.resources = MapSet(d.resources, path, NULL),
            !.created = @ \cup {Op("batch", owner, path, n, onLoad, NoCb)},
            !.invocations = [@ EXCEPT ![path] = n],
            !.invoked = Append(@, path)]

\* (mutant of LoadPath: total++ before the continue, so cached paths count)
LoadPathCountsCached(d, owner, res) ==
  IF MapHas(d.resources, res.path)
  THEN IF res.onLoad # NoCb
       THEN [d EXCEPT !.onLoad = Append(@, <<res.onLoad, res.path,
                                             MapGet(d.resources, res.path)>>),
                      !.pending = OnLoadEffect(@, res.onLoad),
                      !.total = @ + 1]
       ELSE [d EXCEPT !.total = @ + 1]
  ELSE [CreatePromise(d, owner, res.path, res.onLoad) EXCEPT !.total = @ + 1]

\* One turn of the for loop of _load.
LoadPath(d, owner, res) ==
  IF MapHas(d.resources, res.path)
  THEN IF res.onLoad # NoCb
       THEN [d EXCEPT !.onLoad = Append(@, <<res.onLoad, res.path,
                                             MapGet(d.resources, res.path)>>),
                      !.pending = OnLoadEffect(@, res.onLoad)]
       ELSE d
  ELSE [CreatePromise(d, owner, res.path, res.onLoad) EXCEPT !.total = @ + 1]

RECURSIVE LoadPaths(_, _, _)
LoadPaths(d, owner, paths) ==
  IF paths = <<>> THEN d
  ELSE LoadPaths(LoadPath(d, owner, Head(paths)), owner, Tail(paths))

\* _load(resource)
LoadResource(d, owner, resource) ==
  LET g == GetLoaderIn(d.loaders, d.nextInst, resource.loader) IN
  LoadPaths([d EXCEPT !.loaders = g.loaders, !.nextInst = g.nextInst],
            owner, resource.paths)

\* (mutant of DrainLoop: the requests queued at the call are taken out in
\* one go and handled; what callbacks push meanwhile stays in the queue)
RECURSIVE DrainList(_, _, _)
DrainList(d, owner, list) ==
  IF list = <<>> THEN d
  ELSE LET resource == list[Len(list)]
           taken == [d EXCEPT !.drained = Append(@, resource)]
       IN DrainList(LoadResource(taken, owner, resource), owner,
                    SubSeq(list, 1, Len(list) - 1))

DrainSnapshot(d, owner) ==
  DrainList([d EXCEPT !.pending = <<>>], owner, d.pending)

\* (mutant of DrainLoop: if instead of while, one request is popped)
DrainOnce(d, owner) ==
  IF d.pending = <<>> THEN d
  ELSE LET resource == d.pending[Len(d.pending)]
           popped == [d EXCEPT !.pending = SubSeq(@, 1, Len(@) - 1),
                               !.drained = Append(@, resource)]
       IN LoadResource(popped, owner, resource)

\* while ((resource = _pending.pop())) _load(resource)
RECURSIVE DrainLoop(_, _)
DrainLoop(d, owner) ==
  IF d.pending = <<>> THEN d
  ELSE LET resource == d.pending[Len(d.pending)]
           popped == [d EXCEPT !.pending = SubSeq(@, 1, Len(@) - 1),
                               !.drained = Append(@, resource)]
       IN DrainLoop(LoadResource(popped, owner, resource), owner)

\* (mutant of Coalesce: _onProgress ?? config.onProgress)
CoalesceDefaultFirst(given, default) ==
  IF default # NoCb THEN default ELSE given

\* config.onProgress ?? _onProgress
Coalesce(given, default) == IF given # NoCb THEN given ELSE default

\* (mutant of PromiseAllOf: the promise of an empty array is left pending)
PromiseAllOfPending(n) == [state |-> "pending", value |-> <<"pending", "", 0>>]

\* Promise.all(promises) as it is when loadPending returns: the promise of
\* an empty array is fulfilled already, any other is fulfilled by a later
\* reaction (PromiseAll below).
PromiseAllOf(n) ==
  IF n = 0 THEN Promise("fulfilled", ArrayOf(0))
  ELSE Promise("pending", PENDING)

RECURSIVE PathsOf(_)
PathsOf(requests) ==
  IF requests = <<>> THEN {}
  ELSE {Head(requests).paths[i].path : i \in DOMAIN Head(requests).paths}
         \cup PathsOf(Tail(requests))

LoadPending(config) ==
  LET id == Len(batches) + 1
      d0 == [pending |-> pending, resources |-> resources, loaders |-> loaders,
             nextInst |-> nextInst, invocations |-> invocations, total |-> 0,
             created |-> {}, invoked |-> <<>>, onLoad |-> <<>>,
             drained |-> <<>>]
      d == DrainLoop(d0, id)
  IN
  /\ UserCall
  /\ pending' = d.pending
  /\ resources' = d.resources
  /\ loaders' = d.loaders
  /\ nextInst' = d.nextInst
  /\ invocations' = d.invocations
  /\ ops' = ops \cup d.created
  /\ batches' = Append(batches,
        [onProgress |-> Coalesce(config.onProgress, onProgressDefault),
         onError |-> Coalesce(config.onError, onErrorDefault),
         total |-> d.total, progress |-> 0,
         state |-> PromiseAllOf(Len(d.invoked)).state,
         value |-> PromiseAllOf(Len(d.invoked)).value,
         \* what follows is kept for the properties only
         config |-> config,
         promises |-> Len(d.invoked), requests |-> Len(d.drained),
         absent |-> Cardinality(PathsOf(d.drained) \ DOMAIN resources),
         settled |-> 0, failed |-> 0, ratios |-> <<>>])
  /\ ev' = [NoEvent EXCEPT !.op = "loadPending", !.owner = id,
                           !.invoked = d.invoked, !.onLoad = d.onLoad,
                           !.drained = d.drained]
  /\ UNCHANGED <<onProgressDefault, onErrorDefault, loadCalls>>

(***************************************************************************)
(* The two callbacks _createPromise hands to the loader.  Their statements *)
(* run in the order of the code, and the callbacks they invoke are user    *)
(* code that can look at the cache, so each statement is a function of a   *)
(* record k of what the callback reads and writes:                         *)
(*   resources, pending : the globals                                      *)
(*   progress           : the counter of the closure                       *)
(*   onProgress, onLoad, onError : the calls of user callbacks made        *)
(*   order : the statements run so far, each with what get(path) returns   *)
(*           once it has run (for a callback: while it runs)               *)
(***************************************************************************)
Seen(k, what, path) == Append(k.order, <<what, MapGet(k.resources, path)>>)

\* _resources.set(path, result)
SetResult(k, path, result) ==
  LET w == [k EXCEPT !.resources = MapSet(@, path, result)] IN
  [w EXCEPT !.order = Seen(w, "set", path)]

\* _resources.delete(path)
DeleteResource(k, path) ==
  LET w == [k EXCEPT !.resources = MapDelete(@, path)] IN
  [w EXCEPT !.order = Seen(w, "delete", path)]

\* (mutant of TellProgress: total is one counter shared by all the calls)
RECURSIVE SumOfTotals(_)
SumOfTotals(bs) ==
  IF bs = <<>> THEN 0 ELSE Head(bs).total + SumOfTotals(Tail(bs))

TellProgressSharedTotal(k, onProgress, total, path) ==
  IF onProgress # NoCb
  THEN [k EXCEPT !.progress = @ + 1,
                 !.onProgress = Append(@, <<onProgress,
                                            <<k.progress + 1,
                                              SumOfTotals(batches)>> >>),
                 !.order = Append(@, <<"onProgress",
                                       MapGet(k.resources, path)>>)]
  ELSE k

\* if (onProgress) onProgress(++progress / total)
TellProgress(k, onProgress, total, path) ==
  IF onProgress # NoCb
  THEN [k EXCEPT !.progress = @ + 1,
                 !.onProgress = Append(@, <<onProgress,
                                            Ratio(k.progress + 1, total)>>),
                 !.order = Seen(k, "onProgress", path)]
  ELSE k

\* if (onLoad) onLoad(result)
TellLoad(k, onLoad, path, result) ==
  IF onLoad # NoCb
  THEN [k EXCEPT !.pending = OnLoadEffect(@, onLoad),
                 !.onLoad = Append(@, <<onLoad, path, result>>),
                 !.order = Seen(k, "onLoad", path)]
  ELSE k

\* if (onError) onError(e)
TellError(k, onError, path, e) ==
  [k EXCEPT !.onError = @ \o CallOnError(onError, e),
            !.order = IF CallOnError(onError, e) # <<>>
                      THEN Seen(k, "onError", path) ELSE @]

\* resolve()
Resolve(k, path) == [k EXCEPT !.order = Seen(k, "resolve", path)]

\* One statement after another: Statement is run on the record as the
\* statements before it left it.
Then(k, Statement(_)) == CHOOSE r \in {Statement(v) : v \in {k}} : TRUE

\* (mutant of OnSuccess: the callbacks are told before the result is stored)
OnSuccessStoresLast(k, o, onProgress, total) ==
  LET result == <<"result", o.path, o.n>>
      k1 == Then(k, LAMBDA v : TellProgress(v, onProgress, total, o.path))
      k2 == Then(k1, LAMBDA v : TellLoad(v, o.onLoad, o.path, result))
      k3 == Then(k2, LAMBDA v : SetResult(v, o.path, result))
  IN Then(k3, LAMBDA v : Resolve(v, o.path))

\* (result) => { ... } of _createPromise
OnSuccess(k, o, onProgress, total) ==
  LET result == Result(o.path, o.n)
      k1 == Then(k, LAMBDA v : SetResult(v, o.path, result))
      k2 == Then(k1, LAMBDA v : TellProgress(v, onProgress, total, o.path))
      k3 == Then(k2, LAMBDA v : TellLoad(v, o.onLoad, o.path, result))
  IN Then(k3, LAMBDA v : Resolve(v, o.path))

\* (mutant of OnError: the path is not deleted)
OnErrorNoDelete(k, o, onProgress, onError, total) ==
  LET e == <<"error", o.path, o.n>>
      k1 == Then(k, LAMBDA v : TellError(v, onError, o.path, e))
      k2 == Then(k1, LAMBDA v : TellProgress(v, onProgress, total, o.path))
  IN Then(k2, LAMBDA v : Resolve(v, o.path))

\* (e) => { ... } of _createPromise
OnError(k, o, onProgress, onError, total) ==
  LET e == Error(o.path, o.n)
      k1 == Then(k, LAMBDA v : DeleteResource(v, o.path))
      k2 == Then(k1, LAMBDA v : TellError(v, onError, o.path, e))
      k3 == Then(k2, LAMBDA v : TellProgress(v, onProgress, total, o.path))
  IN Then(k3, LAMBDA v : Resolve(v, o.path))

\* What a callback of _createPromise starts from.
CallbackStart(progress) ==
  [resources |-> resources, pending |-> pending, progress |-> progress,
   onProgress |-> <<>>, onLoad |-> <<>>, onError |-> <<>>, order |-> <<>>]

\* The success callback of _createPromise.
BatchOnSuccess(o) ==
  /\ UNCHANGED calls
  /\ o \in ops /\ o.kind = "batch"
  /\ \E b \in {batches[o.owner]} :
     \E k \in {OnSuccess(CallbackStart(b.progress), o, b.onProgress, b.total)} :
     \E ratio \in {[i \in DOMAIN k.onProgress |-> k.onProgress[i][2]]} :
       /\ resources' = k.resources
       /\ batches' = [batches EXCEPT ![o.owner].progress = k.progress,
                                     ![o.owner].settled = @ + 1,
                                     ![o.owner].ratios = @ \o ratio]
       /\ pending' = k.pending
       /\ ops' = ops \ {o}
       /\ ev' = [NoEvent EXCEPT !.op = "batch.onSuccess", !.path = o.path,
                                !.owner = o.owner, !.ret = Result(o.path, o.n),
                                !.before = MapGet(resources, o.path),
                                !.onProgress = k.onProgress,
                                !.onLoad = k.onLoad,
                                !.order = k.order]
       /\ UNCHANGED <<onProgressDefault, onErrorDefault, loaders, loadCalls,
                      nextInst, invocations>>

\* The error callback of _createPromise.
BatchOnError(o) ==
  /\ UNCHANGED calls
  /\ o \in ops /\ o.kind = "batch"
  /\ \E b \in {batches[o.owner]} :
     \E k \in {OnError(CallbackStart(b.progress), o, b.onProgress, b.onError,
                       b.total)} :
     \E ratio \in {[i \in DOMAIN k.onProgress |-> k.onProgress[i][2]]} :
       /\ resources' = k.resources
       /\ batches' = [batches EXCEPT ![o.owner].progress = k.progress,
                                     ![o.owner].settled = @ + 1,
                                     ![o.owner].failed = @ + 1,
                                     ![o.owner].ratios = @ \o ratio]
       /\ pending' = k.pending
       /\ ops' = ops \ {o}
       /\ ev' = [NoEvent EXCEPT !.op = "batch.onError", !.path = o.path,
                                !.owner = o.owner, !.ret = Error(o.path, o.n),
                                !.before = MapGet(resources, o.path),
                                !.onProgress = k.onProgress,
                                !.onError = k.onError,
                                !.order = k.order]
       /\ UNCHANGED <<onProgressDefault, onErrorDefault, loaders, loadCalls,
                      nextInst, invocations>>

\* Promise.all(promises) of one promise or more: fulfilled, in a later
\* microtask, once every promise of the call is fulfilled; none ever rejects.
Unsettled(owner) == {o \in ops : o.kind = "batch" /\ o.owner = owner}

\* (mutant of AllFulfilled: the promises are not awaited)
AllFulfilledNotAwaited(owner) == TRUE

AllFulfilled(owner) == Unsettled(owner) = {}

PromiseAll(owner) ==
  /\ UNCHANGED calls
  /\ owner \in DOMAIN batches
  /\ batches[owner].state = "pending"
  /\ AllFulfilled(owner)
  /\ batches' = [batches EXCEPT ![owner].state = "fulfilled",
                                ![owner].value = ArrayOf(batches[owner].promises)]
  /\ ev' = [NoEvent EXCEPT !.op = "Promise.all", !.owner = owner]
  /\ UNCHANGED <<onProgressDefault, onErrorDefault, loaders, resources, pending,
                 loadCalls, ops, nextInst, invocations>>

(***************************************************************************)
(* What user code calls with.                                              *)
(***************************************************************************)
PreloadArgs ==
  { <<>>,
    <<Entry("a", NoCb)>>,
    <<Entry("a", "cb1"), Entry("b", NoCb)>>,
    <<Entry("a", "cb1"), Entry("a", "cb2")>>,
    <<Entry("b", "cbPre")>> }

Configs ==
  { [onProgress |-> NoCb, onError |-> NoCb],
    [onProgress |-> "P1", onError |-> NoCb],
    [onProgress |-> "P1", onError |-> "E1"] }

Next ==
  \/ \E p \in Paths : Add(p, Manual)
  \/ \E ps \in {<<>>, <<"a">>, <<"a", "b">>} : Remove(ps)
  \/ \E t \in {"LX"}, p \in Paths, cb \in {NoCb, "E1"} : Load(t, p, cb)
  \/ \E o \in ops : LoadOnSuccess(o)
  \/ \E o \in ops : LoadOnError(o)
  \/ \E t \in {"LX"}, r \in PreloadArgs : Preload(t, r)
  \/ \E c \in Configs : LoadPending(c)
  \/ \E o \in ops : BatchOnSuccess(o)
  \/ \E o \in ops : BatchOnError(o)
  \/ \E b \in DOMAIN batches : PromiseAll(b)

Spec == Init /\ [][Next]_vars

\* The loader registry at work: both loader types, with the calls that obtain
\* a loader (getLoader, load, loadPending) and removeLoader.
RegistryNext ==
  \/ \E t \in LoaderTypes : GetLoader(t)
  \/ \E t \in LoaderTypes : RemoveLoader(t)
  \/ \E t \in LoaderTypes, p \in Paths : Load(t, p, NoCb)
  \/ \E o \in ops : LoadOnSuccess(o)
  \/ \E o \in ops : LoadOnError(o)
  \/ \E t \in LoaderTypes, r \in {<<>>, <<Entry("a", NoCb)>>} : Preload(t, r)
  \/ LoadPending([onProgress |-> NoCb, onError |-> NoCb])
  \/ \E o \in ops : BatchOnSuccess(o)
  \/ \E o \in ops : BatchOnError(o)

RegistrySpec == Init /\ [][RegistryNext]_vars

\* The default callbacks at work: "P2", "P3" and "E2" are defaults that only
\* observe, set and replaced around loadPending calls with and without
\* callbacks of their own.
DefaultsNext ==
  \/ \E cb \in {NoCb, "P2", "P3"} : SetOnProgressDefault(cb)
  \/ \E cb \in {NoCb, "E2"} : SetOnErrorDefault(cb)
  \/ \E r \in {<<Entry("a", NoCb)>>, <<Entry("a", NoCb), Entry("b", NoCb)>>} :
       Preload("LX", r)
  \/ \E c \in Configs : LoadPending(c)
  \/ \E o \in ops : BatchOnSuccess(o)
  \/ \E o \in ops : BatchOnError(o)
  \/ \E b \in DOMAIN batches : PromiseAll(b)

DefaultsSpec == Init /\ [][DefaultsNext]_vars

\* User code that leaves the cache to load, preload and loadPending: it calls
\* neither add nor remove.
NoManualNext ==
  \/ \E t \in {"LX"}, p \in Paths, cb \in {NoCb, "E1"} : Load(t, p, cb)
  \/ \E o \in ops : LoadOnSuccess(o)
  \/ \E o \in ops : LoadOnError(o)
  \/ \E t \in {"LX"}, r \in PreloadArgs : Preload(t, r)
  \/ \E c \in Configs : LoadPending(c)
  \/ \E o \in ops : BatchOnSuccess(o)
  \/ \E o \in ops : BatchOnError(o)
  \/ \E b \in DOMAIN batches : PromiseAll(b)

NoManualSpec == Init /\ [][NoManualNext]_vars

\* A loader calls one of the two callbacks of every load it was given, and
\* the microtask of Promise.all runs once it can.
LoaderAnswers ==
  \E o \in ops : \/ LoadOnSuccess(o) \/ LoadOnError(o)
                 \/ BatchOnSuccess(o) \/ BatchOnError(o)

PromiseAllRuns == \E b \in DOMAIN batches : PromiseAll(b)

FairSpec == Spec /\ WF_vars(LoaderAnswers) /\ WF_vars(PromiseAllRuns)

(***************************************************************************)
(* Properties.                                                             *)
(***************************************************************************)
Batches == DOMAIN batches

\* Ratios <<k, total>> compared as the quotients k / total.
RatioEq(r, q) == r[2] # 0 /\ q[2] # 0 /\ r[1] * q[2] = q[1] * r[2]

RatioLess(r, q) == r[2] > 0 /\ q[2] > 0 /\ r[1] * q[2] < q[1] * r[2]

RatioIsOne(r) == r[2] > 0 /\ r[1] = r[2]

Settled(b) == Unsettled(b) = {}

\* C1: a loadPending call with an effective onProgress that created
\* total >= 1 operations has told onProgress, after its k-th completion
\* (success or error, in any order), exactly the ratios 1/total .. k/total,
\* strictly increasing, and total of them, the last exactly 1, once all of its
\* operations have settled.
C1_ProgressRatios ==
  \A b \in Batches :
    LET c == batches[b] IN
    (c.onProgress # NoCb /\ c.promises >= 1) =>
      /\ Len(c.ratios) = c.settled
      /\ \A k \in 1..Len(c.ratios) : RatioEq(c.ratios[k], <<k, c.promises>>)
      /\ \A k \in 1..(Len(c.ratios) - 1) : RatioLess(c.ratios[k], c.ratios[k + 1])
      /\ Settled(b) => /\ Len(c.ratios) = c.promises
                       /\ RatioIsOne(c.ratios[Len(c.ratios)])

\* C1 witness: a call that created two operations has told onProgress 1/2
\* and 2/2, one operation having failed and the other succeeded.
C1_Witness ==
  \E b \in Batches :
    /\ batches[b].onProgress # NoCb
    /\ batches[b].promises = 2
    /\ batches[b].failed = 1
    /\ Settled(b)
    /\ batches[b].ratios = <<Ratio(1, 2), Ratio(2, 2)>>

\* C2: a loadPending call whose drained requests hold N distinct paths that
\* were absent when the drain began calls a loader's load N times, and its
\* promise is fulfilled only after N success/error callbacks have fired (and,
\* once fulfilled, stays as it is).
C2_ExactlyOnceState ==
  \A b \in Batches :
    LET c == batches[b] IN
    /\ c.promises = c.absent
    /\ c.settled <= c.absent
    /\ c.settled + Cardinality(Unsettled(b)) = c.absent
    /\ c.state = "fulfilled" => c.settled = c.absent

C2_ExactlyOnceStep ==
  /\ ev'.op = "loadPending" =>
       /\ Len(ev'.invoked) = batches'[ev'.owner].absent
       /\ Cardinality(ops' \ ops) = batches'[ev'.owner].absent
  /\ \A b \in Batches :
       batches[b].state = "fulfilled" =>
         batches'[b].state = "fulfilled" /\ batches'[b].value = batches[b].value

C2_ExactlyOnce == []C2_ExactlyOnceState /\ [][C2_ExactlyOnceStep]_vars

\* C2 witness: a fulfilled call that drained two requests holding two absent
\* paths, after exactly two callbacks.
C2_Witness ==
  \E b \in Batches :
    /\ batches[b].state = "fulfilled"
    /\ batches[b].absent = 2
    /\ batches[b].settled = 2
    /\ batches[b].requests = 2

\* The entries of the drained requests, in the order _load met them.
RECURSIVE FlatEntries(_)
FlatEntries(requests) ==
  IF requests = <<>> THEN <<>>
  ELSE Head(requests).paths \o FlatEntries(Tail(requests))

Resolved(m, p) == p \in DOMAIN m /\ m[p] # NULL

\* C3: when p is mapped to a resolved value, load(p) calls no loader and is
\* fulfilled with the cached value, and a loadPending that drains requests
\* for p calls no loader for p, counts in total only the operations it
\* creates (so not p) and calls, during the drain, the onLoad of every entry
\* for p that has one with the cached value.
C3_LoadStep ==
  (ev'.op = "load" /\ Resolved(resources, ev'.path)) =>
     /\ ev'.invoked = <<>>
     /\ ops' = ops
     /\ invocations' = invocations
     /\ resources' = resources
     /\ loadCalls' = Append(loadCalls,
                            Promise("fulfilled", resources[ev'.path]))

C3_DrainStep ==
  ev'.op = "loadPending" =>
    \A p \in Paths :
      Resolved(resources, p) =>
        LET es == SelectSeq(FlatEntries(ev'.drained),
                            LAMBDA e : e.path = p /\ e.onLoad # NoCb)
            cs == SelectSeq(ev'.onLoad, LAMBDA c : c[2] = p)
        IN /\ \A i \in DOMAIN ev'.invoked : ev'.invoked[i] # p
           /\ \A o \in ops' \ ops : o.path # p
           /\ invocations'[p] = invocations[p]
           /\ Resolved(resources', p) /\ resources'[p] = resources[p]
           /\ batches'[ev'.owner].total = Len(ev'.invoked)
           /\ Len(cs) = Len(es)
           /\ \A i \in DOMAIN cs : cs[i] = <<es[i].onLoad, p, resources[p]>>

C3_IdempotentFetch == [][C3_LoadStep /\ C3_DrainStep]_vars

\* C3 witness: a was loaded once; a second load(a) was fulfilled at once
\* with that result, and a loadPending has just given it to the onLoad of
\* an entry for a.
C3_Witness ==
  /\ ev.op = "loadPending"
  /\ \E i \in DOMAIN ev.onLoad : ev.onLoad[i] = <<"cb1", "a", Result("a", 1)>>
  /\ Len(loadCalls) = 2
  /\ loadCalls[2] = Promise("fulfilled", Result("a", 1))
  /\ invocations["a"] = 1

\* C4: when a loader reports an error for p, to load or to an operation of
\* loadPending, p is unmapped when the error callback returns: get(p) is
\* undefined whatever p was mapped to (the placeholder, or a value stored
\* with add while the load was in flight).
C4_ErrorStep ==
  ev'.op \in {"load.onError", "batch.onError"} =>
     /\ ~MapHas(resources', ev'.path)
     /\ MapGet(resources', ev'.path) = UNDEFINED

C4_FailureCleanup == [][C4_ErrorStep]_vars

\* C4 witness: the error callback of a load has just run while the path was
\* mapped to a value stored with add.
C4_Witness ==
  /\ ev.op = "load.onError"
  /\ ev.before = Manual
  /\ Get(ev.path) = UNDEFINED

\* C5: when every loader answers, the promise of every loadPending call is
\* eventually fulfilled, however many of its operations fail, and is never
\* rejected; it is not fulfilled while one of its operations is unsettled;
\* and an operation that fails leaves the cache entries of the other paths
\* (the results of the operations that succeeded) as they are.
C5_NotBeforeSettled ==
  \A b \in Batches :
    /\ batches[b].state \in {"pending", "fulfilled"}
    /\ batches[b].state = "fulfilled" =>
         /\ Settled(b)
         /\ batches[b].settled = batches[b].promises
         /\ batches[b].value = ArrayOf(batches[b].promises)

C5_ResultsStay ==
  ev'.op \in {"batch.onError", "Promise.all"} =>
    \A q \in Paths :
      (ev'.op = "Promise.all" \/ q # ev'.path) =>
        /\ MapHas(resources', q) = MapHas(resources, q)
        /\ MapGet(resources', q) = MapGet(resources, q)

C5_Fulfilled ==
  \A b \in 1..MaxCalls :
    (b \in Batches) ~> (b \in Batches /\ batches[b].state = "fulfilled")

C5_BatchAlwaysResolves ==
  /\ []C5_NotBeforeSettled
  /\ [][C5_ResultsStay]_vars
  /\ C5_Fulfilled

\* C5 witness: a fulfilled call of two operations, one failed, the result of
\* the other in the cache.
C5_Witness ==
  \E b \in Batches :
    /\ batches[b].state = "fulfilled"
    /\ batches[b].promises = 2
    /\ batches[b].failed = 1
    /\ \E p \in Paths : MapHas(resources, p) /\ resources[p][1] = "result"

\* C6: when the loader reports an error to a load(p) that found p absent, p
\* is unmapped, the onError given to load (if any) is called once, with that
\* error, and the promise of the call, pending until then, is fulfilled with
\* undefined; a promise of load is pending or fulfilled, never rejected.
C6_NeverRejected ==
  \A i \in DOMAIN loadCalls : loadCalls[i].state \in {"pending", "fulfilled"}

C6_ErrorStep ==
  ev'.op = "load.onError" =>
    \E o \in ops \ ops' :
      /\ ops' = ops \ {o}
      /\ o.kind = "load" /\ o.path = ev'.path /\ o.owner = ev'.owner
      /\ ~MapHas(resources', o.path)
      /\ loadCalls[o.owner] = Promise("pending", PENDING)
      /\ loadCalls' = [loadCalls EXCEPT
                         ![o.owner] = Promise("fulfilled", UNDEFINED)]
      /\ ev'.onError = IF o.onError # NoCb
                       THEN <<<<o.onError, Error(o.path, o.n)>>>> ELSE <<>>

C6_LoadError == []C6_NeverRejected /\ [][C6_ErrorStep]_vars

\* C6 witness: the error callback of a load called with an onError has run.
C6_Witness ==
  /\ ev.op = "load.onError"
  /\ ev.onError = <<<<"E1", Error(ev.path, 1)>>>>
  /\ loadCalls[ev.owner] = Promise("fulfilled", UNDEFINED)
  /\ ~MapHas(resources, ev.path)

\* C7: a load(p) made while an earlier load or batch operation for p is in
\* flight and p is mapped to the placeholder calls no loader and is fulfilled
\* at once with the placeholder; a fulfilled promise of load never changes,
\* so the call never gets the result of the first request.
InFlight(p) == \E o \in ops : o.path = p

C7_SecondLoadStep ==
  (ev'.op = "load" /\ InFlight(ev'.path) /\ ev'.path \in DOMAIN resources
     /\ resources[ev'.path] = NULL) =>
    /\ ev'.invoked = <<>>
    /\ ops' = ops
    /\ invocations' = invocations
    /\ resources' = resources
    /\ loadCalls' = Append(loadCalls, Promise("fulfilled", NULL))

C7_FulfilledStays ==
  \A i \in DOMAIN loadCalls :
    loadCalls[i].state = "fulfilled" => loadCalls'[i] = loadCalls[i]

C7_NoDeduplicatedWait == [][C7_SecondLoadStep /\ C7_FulfilledStays]_vars

\* C7 witness: two loads of one path, the second made while the first was in
\* flight; the first has got its result, the second holds the placeholder.
C7_Witness ==
  /\ Len(loadCalls) = 2
  /\ invocations["a"] = 1
  /\ loadCalls[1] = Promise("fulfilled", Result("a", 1))
  /\ loadCalls[2] = Promise("fulfilled", NULL)

\* C8: the registry maps a loader type to one instance, which a constructor
\* made before; getLoader(T) returns the registered instance when there is
\* one and otherwise constructs, registers and returns a new one (its number
\* is above that of every instance made before); only removeLoader(T) takes
\* the instance of T out of the registry, so two getLoader(T) with no
\* removeLoader(T) between them return the same instance, whatever load and
\* loadPending did in between; removeLoader(T) unregisters T, so the next
\* getLoader(T) constructs; removeLoader of an unregistered type changes
\* nothing.
C8_Registered ==
  /\ \A t \in DOMAIN loaders : loaders[t] \in 1..(nextInst - 1)
  /\ \A t, u \in DOMAIN loaders : loaders[t] = loaders[u] => t = u
  /\ ev.inst < nextInst

C8_GetLoaderStep ==
  ev'.op = "getLoader" =>
    LET t == ev'.type IN
    /\ t \in DOMAIN loaders' /\ loaders'[t] = ev'.inst
    /\ \A u \in LoaderTypes \ {t} :
         /\ (u \in DOMAIN loaders') = (u \in DOMAIN loaders)
         /\ u \in DOMAIN loaders => loaders'[u] = loaders[u]
    /\ IF t \in DOMAIN loaders
       THEN ev'.inst = loaders[t] /\ ~ev'.constructed /\ nextInst' = nextInst
       ELSE ev'.inst = nextInst /\ ev'.constructed /\ nextInst' = nextInst + 1

C8_KeptStep ==
  \A t \in DOMAIN loaders :
    ~(ev'.op = "removeLoader" /\ ev'.type = t) =>
       t \in DOMAIN loaders' /\ loaders'[t] = loaders[t]

C8_RemoveLoaderStep ==
  ev'.op = "removeLoader" =>
    /\ ev'.type \notin DOMAIN loaders'
    /\ nextInst' = nextInst
    /\ ev'.type \notin DOMAIN loaders => loaders' = loaders

C8_LoaderMemoization ==
  /\ []C8_Registered
  /\ [][/\ C8_GetLoaderStep /\ C8_KeptStep /\ C8_RemoveLoaderStep
        /\ nextInst' >= nextInst]_vars

\* C8 witness: getLoader has returned the registered instance of its type,
\* obtained before by a load, after another instance was removed.
C8_Witness ==
  /\ ev.op = "getLoader"
  /\ ~ev.constructed
  /\ DOMAIN loaders = {ev.type}
  /\ ev.inst = loaders[ev.type]
  /\ nextInst = 3
  /\ Len(loadCalls) = 1

Count(seq, x) == Cardinality({i \in DOMAIN seq : seq[i] = x})

Range(seq) == {seq[i] : i \in DOMAIN seq}

\* C9: loadPending takes every request out of the queue and hands it to
\* _load once: the requests it drains are those the queue held when it was
\* called, each as often as it was queued, and those pushed by callbacks
\* during the drain; the queue is empty when the call returns; and a call
\* that finds the queue empty drains nothing and creates no operation.
C9_DrainStep ==
  ev'.op = "loadPending" =>
    LET re == Cardinality({i \in DOMAIN ev'.onLoad : ev'.onLoad[i][1] = "cbPre"})
    IN /\ pending' = <<>>
       /\ Len(ev'.drained) = Len(pending) + re
       /\ batches'[ev'.owner].requests = Len(ev'.drained)
       /\ \A r \in Range(pending) \cup Range(ev'.drained) :
            /\ Count(ev'.drained, r) =
                 Count(pending, r) + (IF r = ReentrantRequest THEN re ELSE 0)
            /\ r.loader \in DOMAIN loaders'
       /\ pending = <<>> =>
            /\ ev'.drained = <<>> /\ ev'.invoked = <<>>
            /\ ops' = ops /\ resources' = resources
            /\ batches'[ev'.owner].total = 0
            /\ batches'[ev'.owner].promises = 0

C9_QueueDrained == [][C9_DrainStep]_vars

\* C9 witness: two preloads, a loadPending that drained both requests, and
\* a second loadPending that found the queue empty.
C9_Witness ==
  /\ ev.op = "loadPending" /\ ev.owner = 2 /\ ev.drained = <<>>
  /\ calls = 4
  /\ batches[1].requests = 2
  /\ batches[2].promises = 0

\* C10: when a path p that is absent occurs several times among the entries
\* one loadPending call drains, the call hands p to a loader once, with the
\* onLoad of the first entry, and counts it once in total; the onLoad of
\* every later entry is called during the drain with the placeholder; and a
\* completion calls no other onLoad than the one of its operation, so those
\* later entries never get the loaded result.
C10_DrainStep ==
  ev'.op = "loadPending" =>
    /\ batches'[ev'.owner].total =
         Cardinality({q \in PathsOf(ev'.drained) : q \notin DOMAIN resources})
    /\ \A p \in PathsOf(ev'.drained) \ DOMAIN resources :
         LET es == SelectSeq(FlatEntries(ev'.drained), LAMBDA e : e.path = p)
             later == SelectSeq(Tail(es), LAMBDA e : e.onLoad # NoCb)
             cs == SelectSeq(ev'.onLoad, LAMBDA c : c[2] = p)
         IN /\ Count(ev'.invoked, p) = 1
            /\ \E o \in ops' \ ops :
                 /\ o.path = p /\ o.owner = ev'.owner /\ o.onLoad = es[1].onLoad
                 /\ \A o2 \in ops' \ ops : o2.path = p => o2 = o
            /\ Len(cs) = Len(later)
            /\ \A i \in DOMAIN cs : cs[i] = <<later[i].onLoad, p, NULL>>

C10_CompletionStep ==
  /\ ev'.op = "batch.onSuccess" =>
       \E o \in ops \ ops' :
         ev'.onLoad = IF o.onLoad # NoCb
                      THEN <<<<o.onLoad, o.path, Result(o.path, o.n)>>>>
                      ELSE <<>>
  /\ ev'.op = "batch.onError" => ev'.onLoad = <<>>

C10_DuplicatePaths == [][C10_DrainStep /\ C10_CompletionStep]_vars

\* C10 witness: a request with two entries for the absent path a: one load,
\* total 1, and the onLoad of the second entry called with the placeholder.
C10_Witness ==
  /\ ev.op = "loadPending"
  /\ ev.invoked = <<"a">>
  /\ ev.onLoad = <<<<"cb2", "a", NULL>>>>
  /\ batches[ev.owner].total = 1

\* C11: the onProgress and onError a loadPending call uses are those of its
\* config when given and otherwise the defaults as the last
\* setOnProgressDefault / setOnErrorDefault before the call left them; the
\* completions of the call invoke these and no other (so never a default
\* when the config gives the callback), and nothing that happens after the
\* call, a changed default included, changes them.
C11_Chosen ==
  \A b \in Batches :
    LET c == batches[b] IN
    /\ c.config.onProgress # NoCb => c.onProgress = c.config.onProgress
    /\ c.config.onError # NoCb => c.onError = c.config.onError

C11_SetStep ==
  /\ ev'.op = "setOnProgressDefault" => onProgressDefault' = ev'.arg
  /\ ev'.op # "setOnProgressDefault" => onProgressDefault' = onProgressDefault
  /\ ev'.op = "setOnErrorDefault" => onErrorDefault' = ev'.arg
  /\ ev'.op # "setOnErrorDefault" => onErrorDefault' = onErrorDefault

C11_CallStep ==
  ev'.op = "loadPending" =>
    LET c == batches'[ev'.owner] IN
    /\ c.config.onProgress = NoCb => c.onProgress = onProgressDefault
    /\ c.config.onError = NoCb => c.onError = onErrorDefault

C11_UseStep ==
  /\ \A b \in Batches :
       /\ batches'[b].onProgress = batches[b].onProgress
       /\ batches'[b].onError = batches[b].onError
       /\ batches'[b].config = batches[b].config
  /\ ev'.op \in {"batch.onSuccess", "batch.onError"} =>
       LET c == batches[ev'.owner] IN
       /\ ev'.onProgress = IF c.onProgress # NoCb
                            THEN <<<<c.onProgress,
                                     Ratio(batches'[ev'.owner].progress, c.total)>>>>
                            ELSE <<>>
       /\ ev'.onError = IF ev'.op = "batch.onError" /\ c.onError # NoCb
                         THEN <<<<c.onError, ev'.ret>>>> ELSE <<>>

C11_EffectiveCallbacks ==
  /\ []C11_Chosen
  /\ [][C11_SetStep /\ C11_CallStep /\ C11_UseStep]_vars

\* C11 witness: a call without callbacks of its own, made while the default
\* onProgress was "P2", has just told "P2" of a completion although the
\* default has been "P3" since.
C11_Witness ==
  /\ ev.op \in {"batch.onSuccess", "batch.onError"}
  /\ batches[ev.owner].config.onProgress = NoCb
  /\ Len(ev.onProgress) = 1 /\ ev.onProgress[1][1] = "P2"
  /\ onProgressDefault = "P3"

\* C12: a failed load or batch operation for p leaves p unmapped, so that a
\* later load(p), and a later loadPending that drains a request for p,
\* finding p still unmapped, hands p to the loader again (attempt number
\* invocations[p] + 1, p mapped to the placeholder); and the success of an
\* attempt leaves p mapped to the result of that attempt.
C12_FailureStep ==
  ev'.op \in {"load.onError", "batch.onError"} =>
    /\ ev'.path \notin DOMAIN resources'
    /\ invocations'[ev'.path] >= 1

C12_LoadRetryStep ==
  (/\ ev'.op = "load"
   /\ invocations[ev'.path] >= 1
   /\ ev'.path \notin DOMAIN resources) =>
     /\ ev'.invoked = <<ev'.path>>
     /\ invocations'[ev'.path] = invocations[ev'.path] + 1
     /\ ev'.path \in DOMAIN resources' /\ resources'[ev'.path] = NULL
     /\ \E o \in ops' \ ops :
          /\ o.kind = "load" /\ o.path = ev'.path /\ o.owner = ev'.owner
          /\ o.n = invocations'[ev'.path]

C12_DrainRetryStep ==
  ev'.op = "loadPending" =>
    \A p \in PathsOf(ev'.drained) :
      (invocations[p] >= 1 /\ p \notin DOMAIN resources) =>
        /\ Count(ev'.invoked, p) = 1
        /\ invocations'[p] = invocations[p] + 1
        /\ p \in DOMAIN resources' /\ resources'[p] = NULL
        /\ \E o \in ops' \ ops :
             /\ o.kind = "batch" /\ o.path = p /\ o.owner = ev'.owner
             /\ o.n = invocations'[p]

C12_SuccessStep ==
  ev'.op \in {"load.onSuccess", "batch.onSuccess"} =>
    \E o \in ops \ ops' :
      /\ o.path = ev'.path
      /\ ev'.ret = Result(o.path, o.n)
      /\ ev'.path \in DOMAIN resources'
      /\ resources'[ev'.path] = Result(o.path, o.n)

C12_RetryAfterFailure ==
  [][/\ C12_FailureStep /\ C12_LoadRetryStep
     /\ C12_DrainRetryStep /\ C12_SuccessStep]_vars

\* C12 witness: the operation of a first loadPending for a failed; a second
\* preload of a and loadPending called the loader again, and that attempt
\* has just succeeded: a is mapped to the second result.
C12_Witness ==
  /\ ev.op = "batch.onSuccess" /\ ev.path = "a" /\ ev.owner = 2
  /\ batches[1].failed = 1 /\ batches[1].promises = 1
  /\ invocations["a"] = 2
  /\ "a" \in DOMAIN resources /\ resources["a"] = Result("a", 2)

\* C13: a loadPending call that creates no operation (the queue is empty,
\* the requests hold no path, or every path they hold is mapped) has total
\* 0 and returns a promise that is fulfilled already, with an empty array,
\* whatever loaders have in flight; it invokes no onProgress and no onError,
\* then or later: a completion belongs to a call that created operations,
\* and every ratio told has a denominator of 1 or more.
C13_EmptyState ==
  \A b \in Batches :
    LET c == batches[b] IN
    /\ c.promises = 0 =>
         /\ c.total = 0 /\ c.progress = 0
         /\ c.state = "fulfilled" /\ c.value = ArrayOf(0)
         /\ c.ratios = <<>> /\ c.settled = 0 /\ c.failed = 0
         /\ Unsettled(b) = {}
    /\ \A i \in DOMAIN c.ratios : c.ratios[i][2] >= 1

C13_EmptyStep ==
  /\ (ev'.op = "loadPending" /\ ops' = ops) =>
       LET c == batches'[ev'.owner] IN
       /\ ev'.invoked = <<>>
       /\ c.promises = 0 /\ c.total = 0
       /\ c.state = "fulfilled" /\ c.value = ArrayOf(0)
       /\ ev'.onProgress = <<>> /\ ev'.onError = <<>>
  /\ ev'.op \in {"batch.onSuccess", "batch.onError"} =>
       /\ batches[ev'.owner].promises >= 1
       /\ batches[ev'.owner].total >= 1
  /\ ev'.op = "Promise.all" => batches[ev'.owner].promises >= 1

C13_NothingToLoad == []C13_EmptyState /\ [][C13_EmptyStep]_vars

\* C13 witness: a loadPending with an onProgress and an onError has just
\* drained a request without paths and a request for a path that is mapped,
\* while a load is in flight: it created nothing and its promise is
\* fulfilled.
C13_Witness ==
  /\ ev.op = "loadPending"
  /\ Len(ev.drained) = 2
  /\ \E i \in DOMAIN ev.drained : ev.drained[i].paths = <<>>
  /\ PathsOf(ev.drained) # {}
  /\ ev.invoked = <<>>
  /\ batches[ev.owner].onProgress = "P1" /\ batches[ev.owner].onError = "E1"
  /\ batches[ev.owner].total = 0
  /\ batches[ev.owner].state = "fulfilled"
  /\ ops # {}

\* C14: no step takes a key from a resolved value to the placeholder; the
\* placeholder is written only to a key that is absent, by the load or
\* loadPending that hands the key to a loader; a loader is called for a key
\* only when the key is absent; and a key leaves the cache only in the
\* error callback of an attempt or in remove.  So a second cycle of a key
\* begins only after the key was deleted.
C14_Step ==
  \A p \in Paths :
    /\ Resolved(resources, p) =>
         ~(p \in DOMAIN resources' /\ resources'[p] = NULL)
    /\ (/\ p \in DOMAIN resources' /\ resources'[p] = NULL
        /\ ~(p \in DOMAIN resources /\ resources[p] = NULL)) =>
         /\ p \notin DOMAIN resources
         /\ ev'.op \in {"load", "loadPending"}
         /\ Count(ev'.invoked, p) = 1
    /\ invocations'[p] # invocations[p] =>
         /\ p \notin DOMAIN resources
         /\ invocations'[p] = invocations[p] + 1
         /\ p \in DOMAIN resources' /\ resources'[p] = NULL
    /\ (p \in DOMAIN resources /\ p \notin DOMAIN resources') =>
         \/ ev'.op \in {"load.onError", "batch.onError"} /\ ev'.path = p
         \/ ev'.op = "remove" /\ \E i \in DOMAIN ev'.paths : ev'.paths[i] = p

C14_PlaceholderOnlyWhenAbsent == [][C14_Step]_vars

\* C14 witness: a was loaded and resolved, then removed, and a second load
\* of a has just written the placeholder again.
C14_Witness ==
  /\ ev.op = "load" /\ ev.invoked = <<"a">>
  /\ invocations["a"] = 2
  /\ "a" \in DOMAIN resources /\ resources["a"] = NULL
  /\ loadCalls[1] = Promise("fulfilled", Result("a", 1))
  /\ ops = {Op("load", 2, "a", 2, NoCb, NoCb)}

\* C15: in every loadPending call the counter of completed operations
\* (progress) never decreases and has been raised once for every operation
\* of the call that has settled, by success or by error, with or without an
\* onProgress: it equals the number of settled operations, is at most total,
\* and equals total once the promise of the call is fulfilled.
C15_CounterState ==
  \A b \in Batches :
    LET c == batches[b] IN
    /\ c.progress = c.settled
    /\ c.progress <= c.total
    /\ c.state = "fulfilled" => c.progress = c.total

C15_CounterStep ==
  \A b \in Batches :
    /\ batches'[b].progress >= batches[b].progress
    /\ batches'[b].total = batches[b].total
    /\ (ev'.op \in {"batch.onSuccess", "batch.onError"} /\ ev'.owner = b) =>
         batches'[b].progress = batches[b].progress + 1

C15_CompletedCounter == []C15_CounterState /\ [][C15_CounterStep]_vars

\* The statements of a record of a step, without what they saw.
Statements(order) == [i \in DOMAIN order |-> order[i][1]]

Optional(present, what) == IF present THEN <<what>> ELSE <<>>

\* C16: the success callback of a batch operation stores the result, then
\* tells onProgress (if there is one), then the onLoad of the entry (if
\* there is one), then settles the operation; the error callback deletes the
\* path, then tells onError (if any), then onProgress (if any), then settles
\* the operation.  So inside the callbacks of a success get(p) is the
\* result, and inside those of a failure get(p) is undefined.
C16_SuccessStep ==
  ev'.op = "batch.onSuccess" =>
    \E o \in ops \ ops' :
      /\ Statements(ev'.order) =
           <<"set">> \o Optional(batches[o.owner].onProgress # NoCb, "onProgress")
                     \o Optional(o.onLoad # NoCb, "onLoad") \o <<"resolve">>
      /\ \A i \in DOMAIN ev'.order : ev'.order[i][2] = Result(o.path, o.n)
      /\ Len(ev'.onProgress) = Len(Optional(batches[o.owner].onProgress # NoCb, 1))
      /\ Len(ev'.onLoad) = Len(Optional(o.onLoad # NoCb, 1))

C16_ErrorStep ==
  ev'.op = "batch.onError" =>
    \E o \in ops \ ops' :
      /\ Statements(ev'.order) =
           <<"delete">> \o Optional(batches[o.owner].onError # NoCb, "onError")
                        \o Optional(batches[o.owner].onProgress # NoCb, "onProgress")
                        \o <<"resolve">>
      /\ \A i \in DOMAIN ev'.order : ev'.order[i][2] = UNDEFINED
      /\ Len(ev'.onProgress) = Len(Optional(batches[o.owner].onProgress # NoCb, 1))
      /\ Len(ev'.onError) = Len(Optional(batches[o.owner].onError # NoCb, 1))

C16_OrderOfEffects == [][C16_SuccessStep /\ C16_ErrorStep]_vars

\* C16 witness: the success callback of an operation with an onLoad, in a
\* call with an onProgress, has run: store, onProgress, onLoad, resolve, the
\* callbacks seeing the result; the other operation of the call failed
\* before, its callbacks seeing the path absent.
C16_Witness ==
  /\ ev.op = "batch.onSuccess"
  /\ Statements(ev.order) = <<"set", "onProgress", "onLoad", "resolve">>
  /\ ev.order[2][2] = Result(ev.path, 1) /\ ev.order[3][2] = Result(ev.path, 1)
  /\ batches[ev.owner].failed = 1
  /\ batches[ev.owner].onError = "E1"

\* How often the callbacks of a step called preload.
Reentries(calls_) ==
  Cardinality({i \in DOMAIN calls_ : calls_[i][1] = "cbPre"})

Repeat(n, x) == [i \in 1..n |-> x]

\* C17: a request pushed by an onLoad that loadPending calls during its
\* drain (the entry's path is mapped) is drained by that call: the queue is
\* empty when the call returns, and the path of the request, when unmapped,
\* is handed to a loader by an operation of that call and counted in its
\* total.  A request pushed by an onLoad that a loader completion calls
\* goes to the end of the queue and stays there: the completion creates no
\* operation and changes the total of no call, the promise of the call can
\* be fulfilled as soon as its own operations have settled, and only a
\* loadPending call takes requests out of the queue and hands paths to
\* loaders on their behalf.
C17_DrainStep ==
  ev'.op = "loadPending" =>
    LET re == Reentries(ev'.onLoad) IN
    /\ pending' = <<>>
    /\ Len(ev'.drained) = Len(pending) + re
    /\ Count(ev'.drained, ReentrantRequest)
         = Count(pending, ReentrantRequest) + re
    /\ batches'[ev'.owner].total = Len(ev'.invoked)
    /\ \A i \in DOMAIN ReentrantRequest.paths :
         LET p == ReentrantRequest.paths[i].path IN
         (re >= 1 /\ p \notin DOMAIN resources) =>
           /\ Count(ev'.invoked, p) = 1
           /\ \E o \in ops' \ ops : o.path = p /\ o.owner = ev'.owner

C17_LateStep ==
  ev'.op # "loadPending" =>
    /\ Len(pending') >= Len(pending)
    /\ SubSeq(pending', 1, Len(pending)) = pending
    /\ ev'.op \in {"batch.onSuccess", "batch.onError"} =>
         /\ pending' = pending \o Repeat(Reentries(ev'.onLoad), ReentrantRequest)
         /\ ops' = ops \ {o \in ops : o.path = ev'.path /\ o.owner = ev'.owner
                                        /\ o.kind = "batch"}
         /\ invocations' = invocations
         /\ \A b \in Batches :
              /\ batches'[b].total = batches[b].total
              /\ batches'[b].promises = batches[b].promises
    /\ ev'.op # "load" => invocations' = invocations

C17_NotAwaited ==
  \A b \in Batches :
    (batches[b].state = "pending" /\ Unsettled(b) = {}) => ENABLED PromiseAll(b)

C17_ReentrantPreload ==
  []C17_NotAwaited /\ [][C17_DrainStep /\ C17_LateStep]_vars

\* C17 witness: a first loadPending loaded b, whose onLoad pushed a request
\* for a when the loader answered: the request stayed queued and the first
\* promise was fulfilled without it.  A second loadPending has now drained
\* it, together with a request for b whose onLoad, called during the drain,
\* pushed another request for a, drained by this call as well.
C17_Witness ==
  /\ ev.op = "loadPending" /\ ev.owner = 2
  /\ batches[1].total = 1 /\ batches[1].state = "fulfilled"
  /\ batches[1].settled = 1
  /\ Reentries(ev.onLoad) = 1
  /\ Count(ev.drained, ReentrantRequest) = 2
  /\ Len(ev.drained) = 3
  /\ ev.invoked = <<"a">>
  /\ batches[2].total = 1
  /\ pending = <<>>

\* C18: when user code calls neither add nor remove, a path has at most one
\* loader invocation in flight, it is mapped to the placeholder exactly
\* while it has one, and a path mapped to a resolved value stays mapped to
\* that value.
OpsOf(p) == {o \in ops : o.path = p}

C18_State ==
  \A p \in Paths :
    /\ Cardinality(OpsOf(p)) <= 1
    /\ (p \in DOMAIN resources /\ resources[p] = NULL) <=> OpsOf(p) # {}
    /\ Resolved(resources, p) =>
         /\ resources[p][1] = "result" /\ resources[p][2] = p
         /\ resources[p][3] = invocations[p]

C18_Step ==
  \A p \in Paths :
    Resolved(resources, p) =>
      /\ p \in DOMAIN resources' /\ resources'[p] = resources[p]
      /\ invocations'[p] = invocations[p]

C18_SingleFlight == []C18_State /\ [][C18_Step]_vars

\* C18 witness: b failed once, was loaded again and is resolved to its
\* second result, while the only invocation for a is in flight and a is
\* mapped to the placeholder.
C18_Witness ==
  /\ DOMAIN resources = {"a", "b"}
  /\ resources["a"] = NULL /\ resources["b"] = Result("b", 2)
  /\ Cardinality(OpsOf("a")) = 1 /\ OpsOf("b") = {}
  /\ ev.op = "loadPending"

\* C19: loadPending calls whose operations are in flight together have
\* counters of their own: a completion changes nothing of any other call
\* (total, progress, the ratios told, the promise) and tells the onProgress
\* of its own call a ratio over the total of its own call; a new call
\* changes nothing of the earlier calls, creates no operation for a path
\* that is in flight and does not count it; and the promise of a call is
\* fulfilled only when its own operations have settled and can be fulfilled
\* as soon as they have, whatever other calls still wait for.
C19_OwnPromise ==
  \A b \in Batches :
    /\ batches[b].state = "fulfilled" => Unsettled(b) = {}
    /\ (batches[b].state = "pending" /\ Unsettled(b) = {}) =>
         ENABLED PromiseAll(b)
    /\ Cardinality(Unsettled(b)) + batches[b].settled = batches[b].total

C19_CompletionStep ==
  ev'.op \in {"batch.onSuccess", "batch.onError"} =>
    LET b == ev'.owner IN
    /\ \A c \in Batches \ {b} : batches'[c] = batches[c]
    /\ batches'[b].total = batches[b].total
    /\ Unsettled(b) # {}
    /\ \A i \in DOMAIN ev'.onProgress :
         /\ ev'.onProgress[i][1] = batches[b].onProgress
         /\ ev'.onProgress[i][2] = <<batches[b].progress + 1, batches[b].total>>
    /\ batches'[b].ratios =
         batches[b].ratios \o [i \in DOMAIN ev'.onProgress |-> ev'.onProgress[i][2]]

C19_CallStep ==
  ev'.op = "loadPending" =>
    /\ \A c \in Batches : batches'[c] = batches[c]
    /\ batches'[ev'.owner].progress = 0
    /\ batches'[ev'.owner].total = Cardinality(ops' \ ops)
    /\ \A o \in ops' \ ops : o.owner = ev'.owner
    /\ \A p \in Paths :
         (InFlight(p) /\ p \in DOMAIN resources) =>
           /\ Count(ev'.invoked, p) = 0
           /\ \A o \in ops' \ ops : o.path # p

C19_IndependentBatches ==
  []C19_OwnPromise /\ [][C19_CompletionStep /\ C19_CallStep]_vars

\* C19 witness: the first call loads a, which is still in flight; the second
\* call drained a request for a and b, created one operation (b), was told
\* 1/1 when b was loaded and is fulfilled, while the first call, told
\* nothing yet, is pending.
C19_Witness ==
  /\ Len(batches) = 2
  /\ batches[1].state = "pending" /\ batches[1].total = 1
  /\ batches[1].onProgress = "P1" /\ batches[1].ratios = <<>>
  /\ \E o \in Unsettled(1) : o.path = "a"
  /\ batches[2].state = "fulfilled" /\ batches[2].total = 1
  /\ batches[2].requests = 1
  /\ batches[2].ratios = <<Ratio(1, 1)>>
  /\ pending = <<>>
  /\ "b" \in DOMAIN resources /\ resources["b"] = Result("b", 1)

\* What a step leaves alone besides the cache and the queue.
C20_RestUnchanged ==
  /\ loaders' = loaders /\ nextInst' = nextInst
  /\ onProgressDefault' = onProgressDefault
  /\ onErrorDefault' = onErrorDefault
  /\ invocations' = invocations

C20_PreloadStep ==
  ev'.op = "preload" =>
    /\ pending' = Append(pending, Resource(ev'.type, ev'.paths))
    /\ resources' = resources
    /\ ops' = ops
    /\ ev'.invoked = <<>> /\ ~ev'.constructed
    /\ C20_RestUnchanged

C20_Settles == ev'.op \in {"load.onSuccess", "load.onError",
                            "batch.onSuccess", "batch.onError"}

C20_CacheStep ==
  C20_Settles =>
    /\ \A q \in Paths \ {ev'.path} :
         /\ (q \in DOMAIN resources') = (q \in DOMAIN resources)
         /\ q \in DOMAIN resources => resources'[q] = resources[q]
    /\ ops' \subseteq ops
    /\ C20_RestUnchanged

\* C20 as stated: preload appends one request to the queue and changes
\* nothing else (no loader is constructed or called, the cache, the registry
\* and the default callbacks are as before); and the step in which an
\* operation for p settles, by success or by failure, changes the cache
\* entry of p only: every other cache entry, the loader registry and the
\* pending queue are as before.
C20_FrameAsStated ==
  [][/\ C20_PreloadStep /\ C20_CacheStep
     /\ C20_Settles => pending' = pending]_vars

\* C20 as amended: as above, but the pending queue is as before except for
\* the requests that the callbacks invoked by the settlement push themselves
\* (an onLoad that calls preload), which are appended to it.
C20_Frame ==
  [][/\ C20_PreloadStep /\ C20_CacheStep
     /\ C20_Settles =>
          pending' = pending \o Repeat(Reentries(ev'.onLoad), ReentrantRequest)
     /\ (C20_Settles /\ ev'.op # "batch.onSuccess") => pending' = pending]_vars

\* C20 witness: with a stored by add and a request queued, the operation
\* for b has just succeeded; its onLoad called preload, so the queue has one
\* request more, and the entry of a and the registry are as they were.
C20_Witness ==
  /\ ev.op = "batch.onSuccess" /\ ev.path = "b"
  /\ Reentries(ev.onLoad) = 1
  /\ Len(pending) = 2 /\ pending[2] = ReentrantRequest
  /\ DOMAIN resources = {"a", "b"}
  /\ resources["a"] = Manual /\ resources["b"] = Result("b", 1)
  /\ DOMAIN loaders = {"LX"}
====
